---- MODULE Spec2Model ----
(***************************************************************************)
(* Track reconstruction and long-term-stop inference engine               *)
(* (backend/long_term_detector.py, LongTermStoppedVehicleDetector).       *)
(*                                                                         *)
(* Units.  A timestamp is a whole number of hours.  All detections lie on  *)
(* one meridian; `latitude' is counted in arc-metres, i.e. units of        *)
(* 180/(pi*R) degrees with R = 6371000 m, so that the Haversine distance   *)
(* of two detections is the absolute difference of their latitudes.        *)
(* A longitude is counted in the same angular unit, eastwards from that    *)
(* meridian.                                                               *)
(* Floating-point values are modelled by exact rationals [n, d].           *)
(***************************************************************************)
EXTENDS Integers, Sequences, FiniteSets, TLC

VARIABLES detector, clock, frame

vars == <<detector, clock, frame>>

(***************************************************************************)
(* Exact rational arithmetic standing for Python floats.                   *)
(***************************************************************************)
Abs(x) == IF x < 0 THEN -x ELSE x

RECURSIVE GCD(_, _)
GCD(a, b) == IF b = 0 THEN a ELSE GCD(b, a % b)

Frac(n, d) ==
    LET g == GCD(Abs(n), Abs(d))
        s == IF d < 0 THEN -1 ELSE 1
    IN  [n |-> (s * n) \div g, d |-> (s * d) \div g]

Zero == [n |-> 0, d |-> 1]
One == [n |-> 1, d |-> 1]
Int2R(i) == [n |-> i, d |-> 1]

LCM(a, b) == (a \div GCD(a, b)) * b

RAdd(x, y) ==
    LET l == LCM(x.d, y.d)
    IN  Frac(x.n * (l \div x.d) + y.n * (l \div y.d), l)
RSub(x, y) == RAdd(x, [n |-> -y.n, d |-> y.d])
RMul(x, y) ==
    LET g1 == GCD(Abs(x.n), y.d)
        g2 == GCD(Abs(y.n), x.d)
    IN  Frac((x.n \div g1) * (y.n \div g2), (x.d \div g2) * (y.d \div g1))
RDivInt(x, k) == RMul(x, [n |-> 1, d |-> k])
RLt(x, y) ==
    LET l == LCM(x.d, y.d)
    IN  x.n * (l \div x.d) < y.n * (l \div y.d)
RLe(x, y) == ~RLt(y, x)
RGt(x, y) == RLt(y, x)
RGe(x, y) == ~RLt(x, y)
RMin(x, y) == IF RLt(y, x) THEN y ELSE x
RMax(x, y) == IF RLt(x, y) THEN y ELSE x

RECURSIVE RSum(_)
RSum(s) == IF s = <<>> THEN Zero ELSE RAdd(Head(s), RSum(Tail(s)))

RECURSIVE SumSeq(_)
SumSeq(s) == IF s = <<>> THEN 0 ELSE Head(s) + SumSeq(Tail(s))

RECURSIVE MaxSeq(_, _)
MaxSeq(s, default) ==
    IF s = <<>> THEN default
    ELSE LET m == MaxSeq(Tail(s), Head(s))
         IN  IF Head(s) >= m THEN Head(s) ELSE m

(* np.mean over a list of floats *)
Mean(s) == RDivInt(RSum(s), Len(s))

(* Python None / a present value *)
None == <<>>
Some(x) == <<x>>
Val(o) == o[1]

(***************************************************************************)
(* GeoMath                                                                 *)
(***************************************************************************)
(* Haversine distance in metres; on one meridian delta_lng = 0, so        *)
(* a = sin^2(delta_lat/2), c = |delta_lat| and distance = R * |delta_lat|. *)
_calculate_distance(vehicle1, vehicle2) ==
    Abs(vehicle2.latitude - vehicle1.latitude)

(* the longitude of the meridian the detections lie on *)
Meridian == Zero

(* np.mean of the members' latitudes and of their longitudes *)
_calculate_center_location(vehicles) ==
    IF vehicles = <<>> THEN [latitude |-> Zero, longitude |-> Zero]
    ELSE [latitude |-> Mean([k \in 1..Len(vehicles) |-> Int2R(vehicles[k].latitude)]),
          longitude |-> Mean([k \in 1..Len(vehicles) |-> Meridian])]

(***************************************************************************)
(* TrackGrouper                                                            *)
(***************************************************************************)
(* The rule of lines 128-130 with both limits inclusive. *)
SameVehicle_Inclusive(self, vehicle, other_vehicle) ==
    /\ _calculate_distance(vehicle, other_vehicle) <= self.movement_threshold_meters
    /\ Abs(vehicle.timestamp - other_vehicle.timestamp) <= 24
    /\ vehicle.vehicle_type = other_vehicle.vehicle_type

(* The rule of lines 128-130, seed `vehicle' against `other_vehicle'. *)
SameVehicle(self, vehicle, other_vehicle) ==
    /\ _calculate_distance(vehicle, other_vehicle) < self.movement_threshold_meters
    /\ Abs(vehicle.timestamp - other_vehicle.timestamp) < 24
    /\ vehicle.vehicle_type = other_vehicle.vehicle_type

Indices(s) == [k \in 1..Len(s) |-> k]

RECURSIVE SeqToSet(_)
SeqToSet(s) == IF s = <<>> THEN {} ELSE {Head(s)} \cup SeqToSet(Tail(s))

(* The outer loop with the test `j in used_vehicles' of line 121 left out. *)
RECURSIVE GroupFrom_NoUsedTest(_, _, _, _, _)
GroupFrom_NoUsedTest(self, vehicles, i, groups, used_vehicles) ==
    IF i > Len(vehicles) THEN groups
    ELSE IF i \in used_vehicles
         THEN GroupFrom_NoUsedTest(self, vehicles, i + 1, groups, used_vehicles)
         ELSE LET members ==
                      SelectSeq(Indices(vehicles),
                                LAMBDA j : /\ j # i
                                           /\ SameVehicle(self, vehicles[i], vehicles[j]))
              IN  GroupFrom_NoUsedTest(self, vehicles, i + 1,
                                       Append(groups, <<i>> \o members),
                                       used_vehicles \cup {i} \cup SeqToSet(members))

(* The outer loop with line 132 left out: a detection that joined a track  *)
(* is not marked as used.                                                  *)
RECURSIVE GroupFrom_MembersNotMarked(_, _, _, _, _)
GroupFrom_MembersNotMarked(self, vehicles, i, groups, used_vehicles) ==
    IF i > Len(vehicles) THEN groups
    ELSE IF i \in used_vehicles
         THEN GroupFrom_MembersNotMarked(self, vehicles, i + 1, groups, used_vehicles)
         ELSE LET members ==
                      SelectSeq(Indices(vehicles),
                                LAMBDA j : /\ j \notin used_vehicles
                                           /\ j # i
                                           /\ SameVehicle(self, vehicles[i], vehicles[j]))
              IN  GroupFrom_MembersNotMarked(self, vehicles, i + 1,
                                             Append(groups, <<i>> \o members),
                                             used_vehicles \cup {i})

(* Outer loop of lines 110-132 from index i on.  A track is the sequence  *)
(* of the input positions of its members, seed first; the key             *)
(* "vehicle_<k>" of a track is its place k-1 in the sequence `groups'.    *)
RECURSIVE GroupFrom(_, _, _, _, _)
GroupFrom(self, vehicles, i, groups, used_vehicles) ==
    IF i > Len(vehicles) THEN groups
    ELSE IF i \in used_vehicles
         THEN GroupFrom(self, vehicles, i + 1, groups, used_vehicles)
         ELSE LET members ==
                      SelectSeq(Indices(vehicles),
                                LAMBDA j : /\ j \notin used_vehicles
                                           /\ j # i
                                           /\ SameVehicle(self, vehicles[i], vehicles[j]))
              IN  GroupFrom(self, vehicles, i + 1,
                            Append(groups, <<i>> \o members),
                            used_vehicles \cup {i} \cup SeqToSet(members))

(* The grouper without the time limit of line 129: tracks are built as if  *)
(* every detection bore the same timestamp.                                *)
_group_vehicles_by_location_NoTimeLimit(self, vehicles) ==
    GroupFrom(self, [k \in 1..Len(vehicles) |-> [vehicles[k] EXCEPT !.timestamp = 0]],
              1, <<>>, {})

_group_vehicles_by_location(self, vehicles) ==
    GroupFrom(self, vehicles, 1, <<>>, {})

(* list.sort(key=timestamp): a stable sort of a track (positions into vs) *)
RECURSIVE InsertByTimestamp(_, _, _)
InsertByTimestamp(vs, sorted, x) ==
    IF sorted = <<>> THEN <<x>>
    ELSE IF vs[Head(sorted)].timestamp <= vs[x].timestamp
         THEN <<Head(sorted)>> \o InsertByTimestamp(vs, Tail(sorted), x)
         ELSE <<x>> \o sorted

RECURSIVE SortByTimestamp(_, _)
SortByTimestamp(vs, group) ==
    IF group = <<>> THEN <<>>
    ELSE InsertByTimestamp(vs, SortByTimestamp(vs, SubSeq(group, 1, Len(group) - 1)),
                           group[Len(group)])

(***************************************************************************)
(* StopConfidenceScorer                                                    *)
(***************************************************************************)
(* What a division by zero leaves in place of a value: Python raises      *)
(* ZeroDivisionError and the call is abandoned.                            *)
ZeroDivisionError == [n |-> 0, d |-> 0]

(* 1 - avg_speed / 50 without the cut-off at 0 *)
SpeedFactor_NoFloor(avg_speed) == RSub(One, RDivInt(avg_speed, 50))

(* max(0, 1 - avg_speed / 50) *)
SpeedFactor(avg_speed) == RMax(Zero, RSub(One, RDivInt(avg_speed, 50)))

Durations(stop_periods) ==
    [k \in 1..Len(stop_periods) |-> stop_periods[k].duration_hours]

(* The score without the test of line 241: line 245 divides by a          *)
(* total_time of 0.                                                        *)
_calculate_stop_confidence_NoZeroTimeGuard(self, stop_periods, total_stop_time, total_time, avg_speed) ==
    IF total_time = 0 \/ self.stop_threshold_hours = 0 THEN ZeroDivisionError
    ELSE LET stop_ratio == Frac(total_stop_time, total_time)
             speed_factor == SpeedFactor(avg_speed)
             stop_count_factor == Frac(10, 10 + Len(stop_periods))
             longest_stop == MaxSeq(Durations(stop_periods), 0)
             longest_stop_factor ==
                 RMin(Frac(longest_stop, self.stop_threshold_hours), One)
             confidence ==
                 RSum(<<RMul(stop_ratio, Frac(4, 10)),
                        RMul(speed_factor, Frac(3, 10)),
                        RMul(stop_count_factor, Frac(2, 10)),
                        RMul(longest_stop_factor, Frac(1, 10))>>)
         IN  RMin(confidence, One)

_calculate_stop_confidence(self, stop_periods, total_stop_time, total_time, avg_speed) ==
    IF total_time = 0 THEN Zero
    ELSE IF self.stop_threshold_hours = 0 THEN ZeroDivisionError
    ELSE LET stop_ratio == Frac(total_stop_time, total_time)
             speed_factor == SpeedFactor(avg_speed)
             stop_count_factor == Frac(10, 10 + Len(stop_periods))
             longest_stop == MaxSeq(Durations(stop_periods), 0)
             longest_stop_factor ==
                 RMin(Frac(longest_stop, self.stop_threshold_hours), One)
             confidence ==
                 RSum(<<RMul(stop_ratio, Frac(4, 10)),
                        RMul(speed_factor, Frac(3, 10)),
                        RMul(stop_count_factor, Frac(2, 10)),
                        RMul(longest_stop_factor, Frac(1, 10))>>)
         IN  RMin(confidence, One)

_calculate_movement_score(avg_speed, total_distance, total_time) ==
    IF total_time = 0 THEN Zero
    ELSE LET speed_score == RMin(RDivInt(avg_speed, 50), One)
             distance_score == RMin(Frac(total_distance, 10000), One)
         IN  RDivInt(RAdd(speed_score, distance_score), 2)

(***************************************************************************)
(* MovementAnalyzer                                                        *)
(***************************************************************************)
_empty_pattern ==
    [total_detections |-> 0, total_distance_km |-> Zero, total_time_hours |-> 0,
     avg_speed_kmh |-> Zero, stop_periods |-> <<>>, total_stop_time_hours |-> 0,
     stop_confidence |-> Zero, movement_score |-> Zero,
     first_seen |-> None, last_seen |-> None]

StopPeriod(self, start, end, location) ==
    [start_time |-> start, end_time |-> end, duration_hours |-> end - start,
     location |-> location,
     confidence |-> IF self.stop_threshold_hours = 0 THEN ZeroDivisionError
                    ELSE RMin(Frac(end - start, self.stop_threshold_hours), One)]

(* A stop window committed whatever its length (lines 166 and 180 left     *)
(* out).                                                                   *)
Commit_NoMinimum(self, stop_periods, start, end, location) ==
    Append(stop_periods, StopPeriod(self, start, end, location))

(* A stop window is committed only if it lasted min_stop_duration_hours. *)
Commit(self, stop_periods, start, end, location) ==
    IF end - start >= self.min_stop_duration_hours
    THEN Append(stop_periods, StopPeriod(self, start, end, location))
    ELSE stop_periods

ScanStart ==
    [total_distance |-> 0, total_time |-> 0, stop_periods |-> <<>>,
     current_stop_start |-> None, current_stop_location |-> None]

(* The iteration with lines 174-175 left out: a closed window stays open. *)
ScanStep_NoReset(self, vehicles, i, s) ==
    LET prev_vehicle == vehicles[i - 1]
        curr_vehicle == vehicles[i]
        distance == _calculate_distance(prev_vehicle, curr_vehicle)
        time_diff == curr_vehicle.timestamp - prev_vehicle.timestamp
        t == [s EXCEPT !.total_distance = @ + distance,
                       !.total_time = @ + time_diff]
    IN  IF distance < self.movement_threshold_meters
        THEN IF s.current_stop_start = None
             THEN [t EXCEPT !.current_stop_start = Some(prev_vehicle.timestamp),
                            !.current_stop_location = Some(prev_vehicle)]
             ELSE t
        ELSE IF s.current_stop_start # None
             THEN [t EXCEPT !.stop_periods =
                                Commit(self, @, Val(s.current_stop_start),
                                       curr_vehicle.timestamp,
                                       Val(s.current_stop_location))]
             ELSE t

(* The iteration with line 156 moved into the else branch of line 163:    *)
(* time is accumulated only over pairs that moved.                         *)
ScanStep_TimeOnlyMoving(self, vehicles, i, s) ==
    LET prev_vehicle == vehicles[i - 1]
        curr_vehicle == vehicles[i]
        distance == _calculate_distance(prev_vehicle, curr_vehicle)
        time_diff == curr_vehicle.timestamp - prev_vehicle.timestamp
        t == [s EXCEPT !.total_distance = @ + distance]
    IN  IF distance < self.movement_threshold_meters
        THEN IF s.current_stop_start = None
             THEN [t EXCEPT !.current_stop_start = Some(prev_vehicle.timestamp),
                            !.current_stop_location = Some(prev_vehicle)]
             ELSE t
        ELSE IF s.current_stop_start # None
             THEN [t EXCEPT !.total_time = @ + time_diff,
                            !.stop_periods =
                                Commit(self, @, Val(s.current_stop_start),
                                       curr_vehicle.timestamp,
                                       Val(s.current_stop_location)),
                            !.current_stop_start = None,
                            !.current_stop_location = None]
             ELSE [t EXCEPT !.total_time = @ + time_diff]

(* One iteration of the loop of lines 148-175 on the pair (i-1, i). *)
ScanStep(self, vehicles, i, s) ==
    LET prev_vehicle == vehicles[i - 1]
        curr_vehicle == vehicles[i]
        distance == _calculate_distance(prev_vehicle, curr_vehicle)
        time_diff == curr_vehicle.timestamp - prev_vehicle.timestamp
        t == [s EXCEPT !.total_distance = @ + distance,
                       !.total_time = @ + time_diff]
    IN  IF distance < self.movement_threshold_meters
        THEN IF s.current_stop_start = None
             THEN [t EXCEPT !.current_stop_start = Some(prev_vehicle.timestamp),
                            !.current_stop_location = Some(prev_vehicle)]
             ELSE t
        ELSE IF s.current_stop_start # None
             THEN [t EXCEPT !.stop_periods =
                                Commit(self, @, Val(s.current_stop_start),
                                       curr_vehicle.timestamp,
                                       Val(s.current_stop_location)),
                            !.current_stop_start = None,
                            !.current_stop_location = None]
             ELSE t

RECURSIVE Scan(_, _, _)
Scan(self, vehicles, i) ==
    IF i < 2 THEN ScanStart
    ELSE ScanStep(self, vehicles, i, Scan(self, vehicles, i - 1))

(* The scan without lines 177-187: a window still open at the end of the  *)
(* track is dropped.                                                       *)
CloseDangling_Lost(self, vehicles, s) ==
    s.stop_periods

(* Lines 177-187: the window still open when the track ends. *)
CloseDangling(self, vehicles, s) ==
    IF s.current_stop_start # None
    THEN Commit(self, s.stop_periods, Val(s.current_stop_start),
                vehicles[Len(vehicles)].timestamp, Val(s.current_stop_location))
    ELSE s.stop_periods

(* The average speed taken in km/h, as the field's name has it, from      *)
(* total_distance_km.                                                      *)
AvgSpeed_InKilometres(total_distance, total_time) ==
    IF total_time >= 1 THEN Frac(total_distance, 1000 * total_time)
    ELSE Frac(10 * total_distance, 1000)

(* total_distance / max(total_time, 0.1) *)
AvgSpeed(total_distance, total_time) ==
    IF total_time >= 1 THEN Frac(total_distance, total_time)
    ELSE Int2R(10 * total_distance)

_analyze_movement_pattern(self, vehicles) ==
    IF Len(vehicles) < 2 THEN _empty_pattern
    ELSE LET s == Scan(self, vehicles, Len(vehicles))
             stop_periods == CloseDangling(self, vehicles, s)
             total_stop_time == SumSeq(Durations(stop_periods))
             avg_speed == AvgSpeed(s.total_distance, s.total_time)
         IN  [total_detections |-> Len(vehicles),
              total_distance_km |-> Frac(s.total_distance, 1000),
              total_time_hours |-> s.total_time,
              avg_speed_kmh |-> avg_speed,
              stop_periods |-> stop_periods,
              total_stop_time_hours |-> total_stop_time,
              stop_confidence |->
                  _calculate_stop_confidence(self, stop_periods, total_stop_time,
                                             s.total_time, avg_speed),
              movement_score |->
                  _calculate_movement_score(avg_speed, s.total_distance, s.total_time),
              first_seen |-> Some(vehicles[1].timestamp),
              last_seen |-> Some(vehicles[Len(vehicles)].timestamp)]

(***************************************************************************)
(* LongTermClassifier                                                      *)
(***************************************************************************)
(* The classifier with the early return of line 213 testing                *)
(* stop_threshold_hours instead of min_stop_duration_hours.                *)
_is_long_term_stopped_WrongGuard(self, pattern, now) ==
    IF pattern.total_stop_time_hours < self.stop_threshold_hours THEN FALSE
    ELSE IF pattern.total_stop_time_hours >= self.stop_threshold_hours THEN TRUE
    ELSE IF RGt(pattern.stop_confidence, Frac(7, 10)) THEN TRUE
    ELSE LET recent_stops ==
                 SelectSeq(pattern.stop_periods,
                           LAMBDA sp : now - sp.end_time < 24)
         IN  recent_stops # <<>> /\ MaxSeq(Durations(recent_stops), 0) > 12

(* The classifier with `==' for `>=' at line 217. *)
_is_long_term_stopped_ExactThreshold(self, pattern, now) ==
    IF pattern.total_stop_time_hours < self.min_stop_duration_hours THEN FALSE
    ELSE IF pattern.total_stop_time_hours = self.stop_threshold_hours THEN TRUE
    ELSE IF RGt(pattern.stop_confidence, Frac(7, 10)) THEN TRUE
    ELSE LET recent_stops ==
                 SelectSeq(pattern.stop_periods,
                           LAMBDA sp : now - sp.end_time < 24)
         IN  recent_stops # <<>> /\ MaxSeq(Durations(recent_stops), 0) > 12

(* `now' is the value datetime.now() returns at line 227. *)
_is_long_term_stopped(self, pattern, now) ==
    IF pattern.total_stop_time_hours < self.min_stop_duration_hours THEN FALSE
    ELSE IF pattern.total_stop_time_hours >= self.stop_threshold_hours THEN TRUE
    ELSE IF RGt(pattern.stop_confidence, Frac(7, 10)) THEN TRUE
    ELSE LET recent_stops ==
                 SelectSeq(pattern.stop_periods,
                           LAMBDA sp : now - sp.end_time < 24)
         IN  recent_stops # <<>> /\ MaxSeq(Durations(recent_stops), 0) > 12

(***************************************************************************)
(* SpatialClusterer                                                        *)
(***************************************************************************)
(* Line 285 divides the radius by 111000 to get degrees; one degree of    *)
(* latitude is pi*R/180 = 111194.93 arc-metres, rounded here to 111195.   *)
MetersPerDegree == 111000
ArcMetresPerDegree == 111195

(* a/b <= c/d for a, c >= 0 and b, d > 0, compared by continued fractions  *)
(* so that no product leaves the machine integers.                         *)
RECURSIVE FracLe(_, _, _, _)
FracLe(a, b, c, d) ==
    IF a \div b # c \div d THEN a \div b < c \div d
    ELSE IF a % b = 0 THEN TRUE
    ELSE IF c % d = 0 THEN FALSE
    ELSE FracLe(d, c % d, b, a % b)

(* The Euclidean distance of the coordinate pairs a and b, taken in        *)
(* degrees, is at most eps = cluster_radius_meters / 111000 degrees:       *)
(* dlat^2 + dlng^2 <= (cluster_radius_meters * 111195 / 111000)^2 in       *)
(* arc-metres.                                                             *)
WithinEps(self, a, b) ==
    LET dlat == RSub(a.latitude, b.latitude)
        dlng == RSub(a.longitude, b.longitude)
        square == RAdd(RMul(dlat, dlat), RMul(dlng, dlng))
        k == Frac(ArcMetresPerDegree, MetersPerDegree)
        kk == RMul(k, k)
    IN  FracLe(square.n,
               square.d * self.cluster_radius_meters * self.cluster_radius_meters,
               kk.n, kk.d)

(* The pairs of points that are eps-neighbours of each other. *)
Neighbours(self, coordinates) ==
    {p \in {<<i, j>> : i \in 1..Len(coordinates), j \in 1..Len(coordinates)} :
        WithinEps(self, coordinates[p[1]], coordinates[p[2]])}

(* The points density-reachable from the set S (every point that has a    *)
(* neighbour is a core point when min_samples = 2).                        *)
RECURSIVE Reachable(_, _)
Reachable(neighbours, S) ==
    LET N == S \cup {p[2] : p \in {q \in neighbours : q[1] \in S}}
    IN  IF N = S THEN S ELSE Reachable(neighbours, N)

SetMin(S) == CHOOSE x \in S : \A y \in S : x <= y

(* DBSCAN(eps, min_samples=1): a point with no neighbour is a cluster of   *)
(* its own.                                                                *)
DBSCAN_MinSamples1(self, coordinates) ==
    LET neighbours == Neighbours(self, coordinates)
        first == [i \in 1..Len(coordinates) |->
                     LET comp == Reachable(neighbours, {i})
                     IN  IF Cardinality(comp) < 1 THEN 0 ELSE SetMin(comp)]
    IN  [i \in 1..Len(coordinates) |->
            IF first[i] = 0 THEN -1
            ELSE Cardinality({j \in 1..(first[i] - 1) : first[j] = j})]

(* DBSCAN(eps, min_samples=2).fit_predict: -1 for noise, otherwise the    *)
(* number of the cluster, clusters numbered by their first point.         *)
DBSCAN(self, coordinates) ==
    LET neighbours == Neighbours(self, coordinates)
        first == [i \in 1..Len(coordinates) |->
                     LET comp == Reachable(neighbours, {i})
                     IN  IF Cardinality(comp) < 2 THEN 0 ELSE SetMin(comp)]
    IN  [i \in 1..Len(coordinates) |->
            IF first[i] = 0 THEN -1
            ELSE Cardinality({j \in 1..(first[i] - 1) : first[j] = j})]

Confidences(vs) == [k \in 1..Len(vs) |-> vs[k].confidence]
StopDurations(vs) == [k \in 1..Len(vs) |-> vs[k].stop_duration_hours]
Locations(vs) == [k \in 1..Len(vs) |-> vs[k].location]

(* The risk rule asking for two vehicles, not three, at line 324. *)
_calculate_cluster_risk_TwoSuffice(cluster_vehicles) ==
    LET avg_confidence == Mean(Confidences(cluster_vehicles))
        vehicle_count == Len(cluster_vehicles)
    IN  IF RGt(avg_confidence, Frac(8, 10)) /\ vehicle_count >= 2 THEN "HIGH"
        ELSE IF RGt(avg_confidence, Frac(6, 10)) /\ vehicle_count >= 2 THEN "MEDIUM"
        ELSE "LOW"

_calculate_cluster_risk(cluster_vehicles) ==
    LET avg_confidence == Mean(Confidences(cluster_vehicles))
        vehicle_count == Len(cluster_vehicles)
    IN  IF RGt(avg_confidence, Frac(8, 10)) /\ vehicle_count >= 3 THEN "HIGH"
        ELSE IF RGt(avg_confidence, Frac(6, 10)) /\ vehicle_count >= 2 THEN "MEDIUM"
        ELSE "LOW"

MakeCluster(cluster_id, cluster_vehicles) ==
    [cluster_id |-> cluster_id,
     center |-> [latitude |->
                    Mean([k \in 1..Len(cluster_vehicles) |->
                             cluster_vehicles[k].location.latitude]),
                 longitude |->
                    Mean([k \in 1..Len(cluster_vehicles) |->
                             cluster_vehicles[k].location.longitude])],
     vehicle_count |-> Len(cluster_vehicles),
     vehicles |-> cluster_vehicles,
     total_stop_time |-> SumSeq(StopDurations(cluster_vehicles)),
     avg_confidence |-> Mean(Confidences(cluster_vehicles)),
     risk_level |-> _calculate_cluster_risk(cluster_vehicles)]

(* Lines 293-298: the members of `s' that carry `label', in input order. *)
RECURSIVE PickLabel(_, _, _, _)
PickLabel(s, cluster_labels, label, i) ==
    IF i > Len(s) THEN <<>>
    ELSE (IF cluster_labels[i] = label THEN <<s[i]>> ELSE <<>>)
         \o PickLabel(s, cluster_labels, label, i + 1)

_cluster_stopped_vehicles(self, stopped_vehicles) ==
    IF Len(stopped_vehicles) < 2 THEN <<>>
    ELSE LET cluster_labels == DBSCAN(self, Locations(stopped_vehicles))
             n == Cardinality({cluster_labels[i] : i \in 1..Len(stopped_vehicles)}
                              \ {-1})
         IN  [c \in 1..n |->
                 MakeCluster(c - 1, PickLabel(stopped_vehicles, cluster_labels, c - 1, 1))]

(***************************************************************************)
(* RiskAssessor and AlertGenerator                                         *)
(***************************************************************************)
RECURSIVE Flatten(_)
Flatten(ss) == IF ss = <<>> THEN <<>> ELSE Head(ss) \o Flatten(Tail(ss))

(* The vehicle alert without the factor 2 of line 339. *)
VehicleAlert_SingleThreshold(self, vehicle) ==
    IF vehicle.stop_duration_hours > self.stop_threshold_hours
    THEN <<[type |-> "LONG_TERM_STOP", severity |-> "HIGH",
            vehicle_id |-> vehicle.vehicle_id, location |-> vehicle.location,
            duration_hours |-> vehicle.stop_duration_hours,
            timestamp |-> vehicle.last_seen]>>
    ELSE <<>>

VehicleAlert(self, vehicle) ==
    IF vehicle.stop_duration_hours > self.stop_threshold_hours * 2
    THEN <<[type |-> "LONG_TERM_STOP", severity |-> "HIGH",
            vehicle_id |-> vehicle.vehicle_id, location |-> vehicle.location,
            duration_hours |-> vehicle.stop_duration_hours,
            timestamp |-> vehicle.last_seen]>>
    ELSE <<>>

(* The cluster alert raised for MEDIUM clusters as well. *)
ClusterAlert_AlsoMedium(cluster, now) ==
    IF cluster.risk_level \in {"HIGH", "MEDIUM"}
    THEN <<[type |-> "STOP_CLUSTER", severity |-> "HIGH",
            location |-> cluster.center, vehicle_count |-> cluster.vehicle_count,
            total_stop_time |-> cluster.total_stop_time, timestamp |-> now]>>
    ELSE <<>>

ClusterAlert(cluster, now) ==
    IF cluster.risk_level = "HIGH"
    THEN <<[type |-> "STOP_CLUSTER", severity |-> "HIGH",
            location |-> cluster.center, vehicle_count |-> cluster.vehicle_count,
            total_stop_time |-> cluster.total_stop_time, timestamp |-> now]>>
    ELSE <<>>

(* `now' is the value datetime.now() returns at line 360. *)
_generate_stop_alerts(self, stopped_vehicles, clusters, now) ==
    Flatten([k \in 1..Len(stopped_vehicles) |-> VehicleAlert(self, stopped_vehicles[k])])
        \o Flatten([k \in 1..Len(clusters) |-> ClusterAlert(clusters[k], now)])

_generate_recommendations(risk_level) ==
    IF risk_level = "HIGH"
    THEN <<"Immediate investigation recommended", "Consider deploying surveillance",
           "Check for abandoned vehicles", "Monitor for illegal parking">>
    ELSE IF risk_level = "MEDIUM"
    THEN <<"Periodic monitoring recommended", "Check for parking violations",
           "Verify vehicle ownership">>
    ELSE <<"Routine monitoring sufficient", "Standard parking enforcement">>

(* The risk score with a HIGH cluster weighing 20, not 30, at line 378. *)
_assess_risk_level_ClusterWeight20(stopped_vehicles, clusters) ==
    IF stopped_vehicles = <<>>
    THEN [level |-> "LOW", score |-> 0, description |-> <<"No stopped vehicles detected">>]
    ELSE LET high_risk_vehicles ==
                 SelectSeq(stopped_vehicles, LAMBDA v : RGt(v.confidence, Frac(8, 10)))
             high_risk_clusters ==
                 SelectSeq(clusters, LAMBDA c : c.risk_level = "HIGH")
             risk_score == Len(stopped_vehicles) * 10 + Len(high_risk_vehicles) * 20
                               + Len(high_risk_clusters) * 20
             level == IF risk_score >= 100 THEN "HIGH"
                      ELSE IF risk_score >= 50 THEN "MEDIUM" ELSE "LOW"
         IN  [level |-> level, score |-> risk_score,
              description |-> <<Len(stopped_vehicles), "stopped vehicles",
                                Len(high_risk_clusters), "high-risk clusters">>,
              recommendations |-> _generate_recommendations(level)]

(* The risk score with a high-confidence vehicle weighing 10, not 20, at   *)
(* line 377.                                                               *)
_assess_risk_level_VehicleWeight10(stopped_vehicles, clusters) ==
    IF stopped_vehicles = <<>>
    THEN [level |-> "LOW", score |-> 0, description |-> <<"No stopped vehicles detected">>]
    ELSE LET high_risk_vehicles ==
                 SelectSeq(stopped_vehicles, LAMBDA v : RGt(v.confidence, Frac(8, 10)))
             high_risk_clusters ==
                 SelectSeq(clusters, LAMBDA c : c.risk_level = "HIGH")
             risk_score == Len(stopped_vehicles) * 10 + Len(high_risk_vehicles) * 10
                               + Len(high_risk_clusters) * 30
             level == IF risk_score >= 100 THEN "HIGH"
                      ELSE IF risk_score >= 50 THEN "MEDIUM" ELSE "LOW"
         IN  [level |-> level, score |-> risk_score,
              description |-> <<Len(stopped_vehicles), "stopped vehicles",
                                Len(high_risk_clusters), "high-risk clusters">>,
              recommendations |-> _generate_recommendations(level)]

_assess_risk_level(stopped_vehicles, clusters) ==
    IF stopped_vehicles = <<>>
    THEN [level |-> "LOW", score |-> 0, description |-> <<"No stopped vehicles detected">>]
    ELSE LET high_risk_vehicles ==
                 SelectSeq(stopped_vehicles, LAMBDA v : RGt(v.confidence, Frac(8, 10)))
             high_risk_clusters ==
                 SelectSeq(clusters, LAMBDA c : c.risk_level = "HIGH")
             risk_score == Len(stopped_vehicles) * 10 + Len(high_risk_vehicles) * 20
                               + Len(high_risk_clusters) * 30
             level == IF risk_score >= 100 THEN "HIGH"
                      ELSE IF risk_score >= 50 THEN "MEDIUM" ELSE "LOW"
         IN  [level |-> level, score |-> risk_score,
              description |-> <<Len(stopped_vehicles), "stopped vehicles",
                                Len(high_risk_clusters), "high-risk clusters">>,
              recommendations |-> _generate_recommendations(level)]

(* The empty report with its level left undetermined for want of data. *)
_empty_result_LevelUnknown ==
    [total_vehicles_analyzed |-> 0, stopped_vehicles_found |-> 0, stop_clusters |-> 0,
     stopped_vehicles |-> <<>>, clusters |-> <<>>, alerts |-> <<>>,
     analysis_period_hours |-> 0,
     risk_assessment |-> [level |-> "UNKNOWN", score |-> 0,
                          description |-> <<"No data available">>]]

_empty_result ==
    [total_vehicles_analyzed |-> 0, stopped_vehicles_found |-> 0, stop_clusters |-> 0,
     stopped_vehicles |-> <<>>, clusters |-> <<>>, alerts |-> <<>>,
     analysis_period_hours |-> 0,
     risk_assessment |-> [level |-> "LOW", score |-> 0,
                          description |-> <<"No data available">>]]

(***************************************************************************)
(* State.  `detector' is the shared LongTermStoppedVehicleDetector         *)
(* instance (its four thresholds), `clock' the wall clock datetime.now()   *)
(* reads, and frame[c] the arguments, locals and program position of call  *)
(* c of detect_long_term_stopped_vehicles.                                 *)
(***************************************************************************)
Calls == {1, 2}

IdleFrame ==
    [pc |-> "idle", vehicles |-> <<>>, analysis_start |-> None,
     recent_vehicles |-> <<>>, vehicle_groups |-> <<>>, group_index |-> 1,
     pattern |-> _empty_pattern, movement_patterns |-> <<>>,
     stopped_vehicles |-> <<>>, stopped_clusters |-> <<>>, alerts |-> <<>>,
     result |-> None]

CallFrame(vehicles, analysis_start) ==
    [IdleFrame EXCEPT !.pc = "call", !.vehicles = vehicles,
                      !.analysis_start = analysis_start]

(* __init__, lines 14-31 *)
DefaultDetector ==
    [stop_threshold_hours |-> 24, movement_threshold_meters |-> 50,
     cluster_radius_meters |-> 100, min_stop_duration_hours |-> 6]

Goto(c, f) == frame' = [frame EXCEPT ![c] = f]

(* timedelta(days=7) in hours *)
SevenDays == 168

(* Lines 46-56: empty input, default window, filter, fewer than two left. *)
Filter(c) ==
    LET f == frame[c]
        analysis_start ==
            IF f.analysis_start = None THEN clock - SevenDays
            ELSE Val(f.analysis_start)
        recent_vehicles ==
            SelectSeq(f.vehicles, LAMBDA v : v.timestamp >= analysis_start)
    IN  /\ f.pc = "call"
        /\ IF f.vehicles = <<>>
           THEN Goto(c, [f EXCEPT !.pc = "done", !.result = Some(_empty_result)])
           ELSE IF Len(recent_vehicles) < 2
           THEN Goto(c, [f EXCEPT !.pc = "done",
                                  !.analysis_start = Some(analysis_start),
                                  !.recent_vehicles = recent_vehicles,
                                  !.result = Some(_empty_result)])
           ELSE Goto(c, [f EXCEPT !.pc = "group",
                                  !.analysis_start = Some(analysis_start),
                                  !.recent_vehicles = recent_vehicles])
        /\ UNCHANGED <<detector, clock>>

(* Line 59 *)
Group(c) ==
    LET f == frame[c]
    IN  /\ f.pc = "group"
        /\ Goto(c, [f EXCEPT !.pc = "loop", !.group_index = 1,
                            !.vehicle_groups =
                                _group_vehicles_by_location(detector, f.recent_vehicles)])
        /\ UNCHANGED <<detector, clock>>

(* Lines 65-67: a track of fewer than two detections is passed over. *)
Skip(c) ==
    LET f == frame[c]
    IN  /\ f.pc = "loop"
        /\ f.group_index <= Len(f.vehicle_groups)
        /\ Len(f.vehicle_groups[f.group_index]) < 2
        /\ Goto(c, [f EXCEPT !.group_index = @ + 1])
        /\ UNCHANGED <<detector, clock>>

(* Line 70 sorting the caller's list as well as the track. *)
Sort_AlsoInput(c) ==
    LET f == frame[c]
        order == SortByTimestamp(f.vehicles, Indices(f.vehicles))
    IN  /\ f.pc = "loop"
        /\ f.group_index <= Len(f.vehicle_groups)
        /\ Len(f.vehicle_groups[f.group_index]) >= 2
        /\ Goto(c, [f EXCEPT !.pc = "analyze",
                            !.vehicles = [k \in 1..Len(order) |-> f.vehicles[order[k]]],
                            !.vehicle_groups[f.group_index] =
                                SortByTimestamp(f.recent_vehicles, @)])
        /\ UNCHANGED <<detector, clock>>

(* Line 70: the track is sorted in place. *)
Sort(c) ==
    LET f == frame[c]
    IN  /\ f.pc = "loop"
        /\ f.group_index <= Len(f.vehicle_groups)
        /\ Len(f.vehicle_groups[f.group_index]) >= 2
        /\ Goto(c, [f EXCEPT !.pc = "analyze",
                            !.vehicle_groups[f.group_index] =
                                SortByTimestamp(f.recent_vehicles, @)])
        /\ UNCHANGED <<detector, clock>>

(* the detections of track g of frame f, in the track's order *)
GroupVehicles(f, g) ==
    [k \in 1..Len(f.vehicle_groups[g]) |-> f.recent_vehicles[f.vehicle_groups[g][k]]]

(* A division of lines 171, 185, 245 or 255 raised while the pattern was   *)
(* computed.                                                               *)
Raises(pattern) ==
    \/ pattern.stop_confidence = ZeroDivisionError
    \/ \E k \in 1..Len(pattern.stop_periods) :
           pattern.stop_periods[k].confidence = ZeroDivisionError

(* Lines 73-74; an exception raised by the analysis leaves the call, which *)
(* has no handler, at once.                                                *)
Analyze(c) ==
    LET f == frame[c]
        pattern == _analyze_movement_pattern(detector, GroupVehicles(f, f.group_index))
    IN  /\ f.pc = "analyze"
        /\ IF Raises(pattern)
           THEN Goto(c, [f EXCEPT !.pc = "raised"])
           ELSE Goto(c, [f EXCEPT !.pc = "classify", !.pattern = pattern,
                                  !.movement_patterns = Append(@, pattern)])
        /\ UNCHANGED <<detector, clock>>

(* Lines 78-86 with the stop counted from the first detection of the      *)
(* track up to the present hour.                                           *)
StoppedVehicle_UntilNow(f) ==
    LET group_vehicles == GroupVehicles(f, f.group_index)
    IN  [vehicle_id |-> f.group_index - 1,
         vehicles |-> group_vehicles,
         pattern |-> f.pattern,
         stop_duration_hours |-> clock - group_vehicles[1].timestamp,
         last_seen |-> group_vehicles[Len(group_vehicles)].timestamp,
         location |-> _calculate_center_location(group_vehicles),
         confidence |-> f.pattern.stop_confidence]

(* Lines 78-86 *)
StoppedVehicle(f) ==
    LET group_vehicles == GroupVehicles(f, f.group_index)
    IN  [vehicle_id |-> f.group_index - 1,
         vehicles |-> group_vehicles,
         pattern |-> f.pattern,
         stop_duration_hours |-> f.pattern.total_stop_time_hours,
         last_seen |-> group_vehicles[Len(group_vehicles)].timestamp,
         location |-> _calculate_center_location(group_vehicles),
         confidence |-> f.pattern.stop_confidence]

(* Lines 62 and 78 with the list of flagged vehicles kept on the shared    *)
(* detector instance instead of in a local: every call sees its growth.    *)
Classify_OnInstance(c) ==
    LET f == frame[c]
        flagged == _is_long_term_stopped(detector, f.pattern, clock)
    IN  /\ f.pc = "classify"
        /\ frame' = [d \in Calls |->
                         LET list == IF flagged
                                     THEN Append(frame[d].stopped_vehicles, StoppedVehicle(f))
                                     ELSE frame[d].stopped_vehicles
                         IN  IF d = c
                             THEN [f EXCEPT !.pc = "loop", !.group_index = @ + 1,
                                            !.stopped_vehicles = list]
                             ELSE [frame[d] EXCEPT !.stopped_vehicles = list]]
        /\ UNCHANGED <<detector, clock>>

(* Lines 77-86; the classifier reads the wall clock. *)
Classify(c) ==
    LET f == frame[c]
    IN  /\ f.pc = "classify"
        /\ Goto(c, [f EXCEPT !.pc = "loop", !.group_index = @ + 1,
                            !.stopped_vehicles =
                                IF _is_long_term_stopped(detector, f.pattern, clock)
                                THEN Append(@, StoppedVehicle(f)) ELSE @])
        /\ UNCHANGED <<detector, clock>>

(* The loop of line 65 is exhausted. *)
EndLoop(c) ==
    LET f == frame[c]
    IN  /\ f.pc = "loop"
        /\ f.group_index > Len(f.vehicle_groups)
        /\ Goto(c, [f EXCEPT !.pc = "cluster"])
        /\ UNCHANGED <<detector, clock>>

(* Line 89 *)
Cluster(c) ==
    LET f == frame[c]
    IN  /\ f.pc = "cluster"
        /\ Goto(c, [f EXCEPT !.pc = "alerts",
                            !.stopped_clusters =
                                _cluster_stopped_vehicles(detector, f.stopped_vehicles)])
        /\ UNCHANGED <<detector, clock>>

(* Line 92; a cluster alert is stamped with the wall clock. *)
Alerts(c) ==
    LET f == frame[c]
    IN  /\ f.pc = "alerts"
        /\ Goto(c, [f EXCEPT !.pc = "return",
                            !.alerts = _generate_stop_alerts(detector, f.stopped_vehicles,
                                                             f.stopped_clusters, clock)])
        /\ UNCHANGED <<detector, clock>>

(* Lines 94-103; analysis_period_hours reads the wall clock. *)
Return(c) ==
    LET f == frame[c]
    IN  /\ f.pc = "return"
        /\ Goto(c, [f EXCEPT !.pc = "done",
                            !.result = Some(
                                [total_vehicles_analyzed |-> Len(f.recent_vehicles),
                                 stopped_vehicles_found |-> Len(f.stopped_vehicles),
                                 stop_clusters |-> Len(f.stopped_clusters),
                                 stopped_vehicles |-> f.stopped_vehicles,
                                 clusters |-> f.stopped_clusters,
                                 alerts |-> f.alerts,
                                 analysis_period_hours |-> clock - Val(f.analysis_start),
                                 risk_assessment |->
                                     _assess_risk_level(f.stopped_vehicles,
                                                        f.stopped_clusters)])])
        /\ UNCHANGED <<detector, clock>>

(* Wall-clock time passes. *)
ClockStart == 40
MaxTicks == 1

Tick ==
    /\ clock < ClockStart + MaxTicks
    /\ clock' = clock + 1
    /\ UNCHANGED <<detector, frame>>

Step(c) ==
    \/ Filter(c) \/ Group(c) \/ Skip(c) \/ Sort(c) \/ Analyze(c) \/ Classify(c)
    \/ EndLoop(c) \/ Cluster(c) \/ Alerts(c) \/ Return(c)

(***************************************************************************)
(* One call of detect_long_term_stopped_vehicles.                          *)
(***************************************************************************)
MaxDet == 3

Latitudes == {0, 40, 80}
Timestamps == {0, 10, 30}
Detections ==
    [latitude : Latitudes, timestamp : Timestamps, vehicle_type : {"car"}]

Detectors ==
    {DefaultDetector, [DefaultDetector EXCEPT !.stop_threshold_hours = 10]}

Init ==
    \E n \in 0..MaxDet : \E vehicles \in [1..n -> Detections] :
        /\ detector \in Detectors
        /\ clock = ClockStart
        /\ \E analysis_start \in {None, Some(10)} :
               frame = [c \in Calls |->
                           IF c = 1 THEN CallFrame(vehicles, analysis_start)
                           ELSE IdleFrame]

Next == Step(1) \/ Tick

Spec == Init /\ [][Next]_vars

(***************************************************************************)
(* Two calls, one after the other, on the same detections, the same        *)
(* detector and the same analysis_start.                                   *)
(***************************************************************************)
InitTwoRuns ==
    \E n \in 0..MaxDet : \E vehicles \in [1..n -> Detections] :
        /\ detector \in Detectors
        /\ clock = ClockStart
        /\ \E analysis_start \in {None, Some(10)} :
               frame = [c \in Calls |-> CallFrame(vehicles, analysis_start)]

(* the second call starts when the first has returned *)
SecondRun == frame[1].pc = "done" /\ Step(2)

NextTwoRuns == Step(1) \/ SecondRun \/ Tick

SpecTwoRuns == InitTwoRuns /\ [][NextTwoRuns]_vars

(***************************************************************************)
(* _group_vehicles_by_location on its own, over detections of two classes  *)
(* and with pairs exactly at the 50 m and 24 h limits.                     *)
(***************************************************************************)
MaxGroupDet == 3

GroupDetections ==
    [latitude : {0, 40, 80, 90}, timestamp : {0, 10, 34}, vehicle_type : {"car", "truck"}]

InitGroup ==
    /\ detector = DefaultDetector
    /\ clock = ClockStart
    /\ \E n \in 0..MaxGroupDet : \E vehicles \in [1..n -> GroupDetections] :
           frame = [c \in Calls |->
                       IF c = 1
                       THEN [IdleFrame EXCEPT !.pc = "group", !.vehicles = vehicles,
                                              !.analysis_start = Some(0),
                                              !.recent_vehicles = vehicles]
                       ELSE IdleFrame]

NextGroup == Group(1)

SpecGroup == InitGroup /\ [][NextGroup]_vars

(***************************************************************************)
(* _analyze_movement_pattern and _is_long_term_stopped on one track given  *)
(* in timestamp order (as after line 70, or as app.py:255-260 passes it).  *)
(***************************************************************************)
MaxTrack == 4

TrackDetections ==
    [latitude : {0, 40, 1000}, timestamp : {0, 6, 20, 30}, vehicle_type : {"car"}]

InitPattern ==
    \E n \in 0..MaxTrack : \E track \in [1..n -> TrackDetections] :
        /\ \A k \in 1..(n - 1) : track[k].timestamp <= track[k + 1].timestamp
        /\ detector \in Detectors
        /\ clock \in {ClockStart, ClockStart + 10}
        /\ frame = [c \in Calls |->
                       IF c = 1
                       THEN [IdleFrame EXCEPT !.pc = "analyze", !.vehicles = track,
                                              !.analysis_start = Some(0),
                                              !.recent_vehicles = track,
                                              !.vehicle_groups = <<Indices(track)>>]
                       ELSE IdleFrame]

NextPattern == Analyze(1) \/ Classify(1)

SpecPattern == InitPattern /\ [][NextPattern]_vars

(***************************************************************************)
(* _cluster_stopped_vehicles, _generate_stop_alerts and _assess_risk_level *)
(* on a given list of flagged vehicles (entry at line 89).                 *)
(***************************************************************************)
MaxStopped == 3

OnMeridian(latitude) == [latitude |-> Int2R(latitude), longitude |-> Meridian]

FlaggedVehicles ==
    [location : {OnMeridian(0), OnMeridian(100), OnMeridian(200)},
     confidence : {Frac(5, 10), Frac(7, 10), Frac(9, 10)}]

(* the flagged vehicle with key "vehicle_<k-1>" built from the fields the  *)
(* clusterer, the alert generator and the risk assessor read               *)
Flagged(k, v, stop_duration_hours) ==
    [vehicle_id |-> k - 1, vehicles |-> <<>>, pattern |-> _empty_pattern,
     stop_duration_hours |-> stop_duration_hours, last_seen |-> 30,
     location |-> v.location, confidence |-> v.confidence]

(* All vehicles of one list have stood equally long: 30 h or 50 h. *)
InitCluster ==
    /\ detector = DefaultDetector
    /\ clock = ClockStart
    /\ \E n \in 0..MaxStopped : \E vs \in [1..n -> FlaggedVehicles] :
       \E stop_duration_hours \in {30, 50} :
           frame = [c \in Calls |->
                       IF c = 1
                       THEN [IdleFrame EXCEPT !.pc = "cluster",
                                              !.analysis_start = Some(0),
                                              !.stopped_vehicles =
                                                  [k \in 1..n |->
                                                      Flagged(k, vs[k], stop_duration_hours)]]
                       ELSE IdleFrame]

NextCluster == Cluster(1) \/ Alerts(1) \/ Return(1)

SpecCluster == InitCluster /\ [][NextCluster]_vars

(***************************************************************************)
(* The same entry with five flagged vehicles standing along a street that  *)
(* runs east-west at latitude 37.5 N, no two of them more than 80 m apart, *)
(* with a mean confidence of 0.85.                                         *)
(***************************************************************************)
(* cos 37.5 degrees: the length of a unit of longitude at that latitude *)
CosLatitude == Frac(119, 150)

(* the place `metres' east of the origin along the parallel *)
East(metres) ==
    [latitude |-> Zero,
     longitude |-> RMul(Int2R(metres), [n |-> CosLatitude.d, d |-> CosLatitude.n])]

(* The distance on the ground between the places a and b (the Haversine   *)
(* distance, lines 422-442, at these short ranges) is at most `metres'.    *)
WithinMetres(a, b, metres) ==
    LET dlat == RSub(a.latitude, b.latitude)
        dlng == RMul(RSub(a.longitude, b.longitude), CosLatitude)
    IN  RLe(RAdd(RMul(dlat, dlat), RMul(dlng, dlng)), Int2R(metres * metres))

StreetVehicles ==
    [location : {East(0), East(40), East(80)},
     confidence : {Frac(75, 100), Frac(85, 100), Frac(95, 100)}]

InitScenarioD ==
    /\ detector = DefaultDetector
    /\ clock = ClockStart
    /\ \E vs \in [1..5 -> StreetVehicles] :
           /\ Mean(Confidences(vs)) = Frac(85, 100)
           /\ \A i, j \in 1..5 :
                  i < j => WithinMetres(vs[i].location, vs[j].location, 80)
           /\ frame = [c \in Calls |->
                           IF c = 1
                           THEN [IdleFrame EXCEPT !.pc = "cluster",
                                                  !.analysis_start = Some(0),
                                                  !.stopped_vehicles =
                                                      [k \in 1..5 |-> Flagged(k, vs[k], 30)]]
                           ELSE IdleFrame]

SpecScenarioD == InitScenarioD /\ [][NextCluster]_vars

(***************************************************************************)
(* Two detections 0 m or 200 m apart, at hours 0 and 1, handed either to   *)
(* detect_long_term_stopped_vehicles in any order or, in timestamp order,  *)
(* straight to the analysis of one track (app.py:255-260).                 *)
(***************************************************************************)
PairDetections ==
    [latitude : {0, 200}, timestamp : {0, 1}, vehicle_type : {"car", "truck"}]

InitScenarioB ==
    \E vehicles \in [1..2 -> PairDetections] :
        /\ detector \in Detectors
        /\ clock = ClockStart
        /\ \/ \E analysis_start \in {None, Some(0)} :
                  frame = [c \in Calls |->
                              IF c = 1 THEN CallFrame(vehicles, analysis_start)
                              ELSE IdleFrame]
           \/ /\ vehicles[1].timestamp <= vehicles[2].timestamp
              /\ frame = [c \in Calls |->
                              IF c = 1
                              THEN [IdleFrame EXCEPT !.pc = "analyze",
                                                     !.vehicles = vehicles,
                                                     !.analysis_start = Some(0),
                                                     !.recent_vehicles = vehicles,
                                                     !.vehicle_groups = <<Indices(vehicles)>>]
                              ELSE IdleFrame]

SpecScenarioB == InitScenarioB /\ [][Next]_vars

(***************************************************************************)
(* One call on up to two detections some of which carry a latitude beyond  *)
(* the pole, a value the latitude column (models.py:24, a plain Float)     *)
(* accepts.  On one meridian the Haversine formula of lines 422-442 still  *)
(* returns the absolute difference of the latitudes.                       *)
(***************************************************************************)
(* latitude 90 degrees north, in arc-metres *)
NorthPole == 90 * ArcMetresPerDegree

OutOfRangeDetections ==
    [latitude : {0, 40, NorthPole + 1000, NorthPole + 1040}, timestamp : {0, 10},
     vehicle_type : {"car"}]

InitOutOfRange ==
    \E n \in 0..2 : \E vehicles \in [1..n -> OutOfRangeDetections] :
        /\ detector \in Detectors
        /\ clock = ClockStart
        /\ \E analysis_start \in {None, Some(10)} :
               frame = [c \in Calls |->
                           IF c = 1 THEN CallFrame(vehicles, analysis_start)
                           ELSE IdleFrame]

SpecOutOfRange == InitOutOfRange /\ [][Next]_vars

(***************************************************************************)
(* One call that is never abandoned by its thread, on detections that may  *)
(* share a timestamp, under the two configurations above and under one     *)
(* with stop_threshold_hours = 0.                                          *)
(***************************************************************************)
SameHourDetections ==
    [latitude : {0, 80}, timestamp : {0, 10}, vehicle_type : {"car"}]

AnyDetectors == Detectors \cup {[DefaultDetector EXCEPT !.stop_threshold_hours = 0]}

InitAnyConfig ==
    \E n \in 0..MaxDet : \E vehicles \in [1..n -> SameHourDetections] :
        /\ detector \in AnyDetectors
        /\ clock = ClockStart
        /\ \E analysis_start \in {None, Some(10)} :
               frame = [c \in Calls |->
                           IF c = 1 THEN CallFrame(vehicles, analysis_start)
                           ELSE IdleFrame]

(* the call has a next statement to execute *)
Running(c) == frame[c].pc \notin {"idle", "done", "raised"}

(* The thread of a call that has a next statement to execute does execute  *)
(* it: it is not for ever Running without taking a step.                   *)
ThreadRuns(c) == []<>(~Running(c)) \/ []<><<Step(c)>>_vars

SpecTerminates == InitAnyConfig /\ [][Next]_vars /\ ThreadRuns(1)

(***************************************************************************)
(* Two calls on the shared detector instance, on different detections,     *)
(* their steps interleaved in any way, while the wall clock stands still.  *)
(***************************************************************************)
MaxConcDet == 2

ConcurrentDetections ==
    {[latitude |-> 0, timestamp |-> 0, vehicle_type |-> "car"],
     [latitude |-> 0, timestamp |-> 10, vehicle_type |-> "car"],
     [latitude |-> 80, timestamp |-> 0, vehicle_type |-> "car"]}

InitConcurrent ==
    \E n1, n2 \in 0..MaxConcDet :
    \E vehicles1 \in [1..n1 -> ConcurrentDetections] :
    \E vehicles2 \in [1..n2 -> ConcurrentDetections] :
        /\ vehicles1 # vehicles2
        /\ detector = DefaultDetector
        /\ clock = ClockStart
        /\ frame = [c \in Calls |->
                       CallFrame(IF c = 1 THEN vehicles1 ELSE vehicles2, None)]

NextConcurrent == Step(1) \/ Step(2)

SpecConcurrent == InitConcurrent /\ [][NextConcurrent]_vars

(***************************************************************************)
(* The pipeline on detections spread over two days, 23, 24, 47 and 48      *)
(* hours apart, under the default thresholds.                              *)
(***************************************************************************)
MaxTwoDayDet == 3

TwoDayDetections ==
    [latitude : {0, 40}, timestamp : {0, 1, 24, 47, 48}, vehicle_type : {"car"}]

InitTwoDays ==
    /\ detector = DefaultDetector
    /\ clock = 50
    /\ \E n \in 0..MaxTwoDayDet : \E vehicles \in [1..n -> TwoDayDetections] :
           frame = [c \in Calls |->
                       IF c = 1 THEN CallFrame(vehicles, Some(0)) ELSE IdleFrame]

SpecTwoDays == InitTwoDays /\ [][Step(1)]_vars

(***************************************************************************)
(* The clusterer, the alert generator and the risk assessor on flagged     *)
(* vehicles whose confidences lie on either side of 0.8: three of them at  *)
(* 0.95, 0.75 and 0.75 average above 0.8 with one alone above it.          *)
(***************************************************************************)
BorderlineVehicles ==
    [location : {OnMeridian(0), OnMeridian(200)},
     confidence : {Frac(75, 100), Frac(95, 100)}]

InitBorderline ==
    /\ detector = DefaultDetector
    /\ clock = ClockStart
    /\ \E n \in 0..MaxStopped : \E vs \in [1..n -> BorderlineVehicles] :
           frame = [c \in Calls |->
                       IF c = 1
                       THEN [IdleFrame EXCEPT !.pc = "cluster",
                                              !.analysis_start = Some(0),
                                              !.stopped_vehicles =
                                                  [k \in 1..n |-> Flagged(k, vs[k], 30)]]
                       ELSE IdleFrame]

SpecBorderline == InitBorderline /\ [][NextCluster]_vars

(***************************************************************************)
(* Properties                                                              *)
(***************************************************************************)
(* the program positions at which vehicle_groups holds the grouper's result *)
Grouped(f) == f.pc \in {"loop", "analyze", "classify", "cluster", "alerts", "return"}

(* C1: the tracks returned by _group_vehicles_by_location partition the   *)
(* input: every detection, identified by its position in the input list,  *)
(* is a member of exactly one track, and tracks hold nothing else.         *)
C1_TracksPartitionInput ==
    \A c \in Calls :
        Grouped(frame[c]) =>
            LET groups == frame[c].vehicle_groups
                n == Len(frame[c].recent_vehicles)
            IN  /\ \A g \in 1..Len(groups) : \A k \in 1..Len(groups[g]) :
                       groups[g][k] \in 1..n
                /\ \A i \in 1..n :
                       Cardinality({g \in 1..Len(groups) :
                                       \E k \in 1..Len(groups[g]) : groups[g][k] = i}) = 1
                /\ \A g \in 1..Len(groups) :
                       \A k1, k2 \in 1..Len(groups[g]) :
                           groups[g][k1] = groups[g][k2] => k1 = k2

(* C1 witness: three detections grouped into a track of two and a track   *)
(* of one.                                                                 *)
C1_Witness ==
    /\ frame[1].pc = "loop"
    /\ Len(frame[1].recent_vehicles) = 3
    /\ Len(frame[1].vehicle_groups) = 2
    /\ \E g \in 1..2 : Len(frame[1].vehicle_groups[g]) = 2

(* every pattern computed so far by call c *)
Patterns(c) == SeqToSet(frame[c].movement_patterns)

(* C2: in every pattern computed from a track in timestamp order, each    *)
(* committed stop interval lasts at least min_stop_duration_hours, and    *)
(* the intervals are in chronological order and do not overlap: each      *)
(* one ends no later than the next one starts.                             *)
C2_StopIntervalsOrdered ==
    \A c \in Calls : \A p \in Patterns(c) :
        LET sp == p.stop_periods
        IN  /\ \A k \in 1..Len(sp) :
                   /\ sp[k].duration_hours >= detector.min_stop_duration_hours
                   /\ sp[k].duration_hours = sp[k].end_time - sp[k].start_time
            /\ \A k \in 1..(Len(sp) - 1) :
                   /\ sp[k].start_time <= sp[k + 1].start_time
                   /\ sp[k].end_time <= sp[k + 1].start_time

(* C2 witness: a track with two committed stop intervals. *)
C2_Witness ==
    /\ frame[1].pc = "classify"
    /\ Len(frame[1].pattern.stop_periods) = 2

(* C3: in every pattern, total_stop_time_hours is the sum of the committed *)
(* intervals' durations and does not exceed total_time_hours.              *)
C3_StopTimeWithinTotalTime ==
    \A c \in Calls : \A p \in Patterns(c) :
        /\ p.total_stop_time_hours = SumSeq(Durations(p.stop_periods))
        /\ p.total_stop_time_hours <= p.total_time_hours

(* C3 witness: a track that stood still for a committed interval and also *)
(* spent time outside any committed interval.                              *)
C3_Witness ==
    /\ frame[1].pc = "classify"
    /\ frame[1].pattern.stop_periods # <<>>
    /\ frame[1].pattern.total_stop_time_hours > 0
    /\ frame[1].pattern.total_stop_time_hours < frame[1].pattern.total_time_hours

(* C4: the stop_confidence of every pattern lies in [0, 1]. *)
C4_ConfidenceBounded ==
    \A c \in Calls : \A p \in Patterns(c) :
        /\ RGe(p.stop_confidence, Zero)
        /\ RLe(p.stop_confidence, One)

(* C4 witness: a track faster than 50 m/h, where 1 - avg_speed/50 is      *)
(* negative before it is cut off at 0.                                     *)
C4_Witness ==
    /\ frame[1].pc = "classify"
    /\ frame[1].pattern.total_time_hours > 0
    /\ RGt(frame[1].pattern.avg_speed_kmh, Int2R(50))
    /\ RGt(frame[1].pattern.stop_confidence, Zero)

(* The three conditions of the decision rule. *)
LongTotalStop(self, pattern) ==
    pattern.total_stop_time_hours >= self.stop_threshold_hours
HighConfidence(pattern) == RGt(pattern.stop_confidence, Frac(7, 10))
RecentLongStop(pattern, now) ==
    \E k \in 1..Len(pattern.stop_periods) :
        /\ now - pattern.stop_periods[k].end_time < 24
        /\ pattern.stop_periods[k].duration_hours > 12

(* the track that call frame f classified last was flagged *)
JustFlagged(f) ==
    \E k \in 1..Len(f.stopped_vehicles) :
        f.stopped_vehicles[k].vehicle_id = f.group_index - 2

JustClassified(f) == f.pc = "loop" /\ f.group_index > 1 /\ f.movement_patterns # <<>>
                     /\ f.movement_patterns[Len(f.movement_patterns)] = f.pattern

(* C5: a track is classified long-term-stopped exactly when one of the    *)
(* three conditions holds: total stop time >= stop_threshold_hours, or    *)
(* stop_confidence > 0.7, or a committed stop interval longer than 12 h   *)
(* that ended less than 24 h before now.                                   *)
C5_ClassifiedIffAnyCondition ==
    \A c \in Calls :
        JustClassified(frame[c]) =>
            (JustFlagged(frame[c]) <=>
                \/ LongTotalStop(detector, frame[c].pattern)
                \/ HighConfidence(frame[c].pattern)
                \/ RecentLongStop(frame[c].pattern, clock))

(* C5 witness: a track flagged by the third condition alone. *)
C5_Witness ==
    /\ JustClassified(frame[1])
    /\ JustFlagged(frame[1])
    /\ ~LongTotalStop(detector, frame[1].pattern)
    /\ ~HighConfidence(frame[1].pattern)
    /\ RecentLongStop(frame[1].pattern, clock)

MaxStopHours == 30

WithStopTime(pattern, hours) == [pattern EXCEPT !.total_stop_time_hours = hours]

(* C6: raising total_stop_time of a pattern, all else unchanged, never    *)
(* turns a positive classification into a negative one.                    *)
C6_ClassificationMonotone ==
    \A c \in Calls : \A p \in Patterns(c) :
        \A h \in 0..(MaxStopHours - 1) :
            _is_long_term_stopped(detector, WithStopTime(p, h), clock)
                => _is_long_term_stopped(detector, WithStopTime(p, h + 1), clock)

(* C6 witness: a pattern that is classified negative with its own total   *)
(* stop time and positive with a larger one.                               *)
C6_Witness ==
    /\ JustClassified(frame[1])
    /\ ~JustFlagged(frame[1])
    /\ \E h \in 0..MaxStopHours :
           /\ h > frame[1].pattern.total_stop_time_hours
           /\ _is_long_term_stopped(detector, WithStopTime(frame[1].pattern, h), clock)

(* C7: two calls on the same detections, the same detector and the same   *)
(* analysis_start return identical reports, whatever the wall clock shows  *)
(* while they run.                                                         *)
C7_Determinism ==
    (frame[1].pc = "done" /\ frame[2].pc = "done")
        => frame[1].result = frame[2].result

(* the program positions at which stopped_clusters holds the clusterer's result *)
Clustered(f) == f.pc \in {"alerts", "return"}

(* the program positions at which alerts holds the alert generator's result *)
Alerted(f) == f.pc \in {"return", "done"}

(* C8: a cluster's risk_level is HIGH exactly if its avg_confidence > 0.8 *)
(* and its vehicle_count >= 3; otherwise MEDIUM exactly if                 *)
(* avg_confidence > 0.6 and vehicle_count >= 2; otherwise LOW.             *)
C8_ClusterRiskJustified ==
    \A c \in Calls :
        Clustered(frame[c]) =>
            \A k \in 1..Len(frame[c].stopped_clusters) :
                LET cl == frame[c].stopped_clusters[k]
                    high == RGt(cl.avg_confidence, Frac(8, 10)) /\ cl.vehicle_count >= 3
                    medium == RGt(cl.avg_confidence, Frac(6, 10)) /\ cl.vehicle_count >= 2
                IN  /\ cl.vehicle_count = Len(cl.vehicles)
                    /\ cl.avg_confidence = Mean(Confidences(cl.vehicles))
                    /\ cl.risk_level \in {"HIGH", "MEDIUM", "LOW"}
                    /\ cl.risk_level = "HIGH" <=> high
                    /\ cl.risk_level = "MEDIUM" <=> (~high /\ medium)

(* C8 witness: a HIGH cluster next to nothing else, i.e. three members    *)
(* whose mean confidence exceeds 0.8.                                      *)
C8_Witness ==
    /\ Clustered(frame[1])
    /\ \E k \in 1..Len(frame[1].stopped_clusters) :
           frame[1].stopped_clusters[k].risk_level = "HIGH"

(* the alerts of the given type, in order *)
AlertsOfType(alerts, type) == SelectSeq(alerts, LAMBDA a : a.type = type)

(* C9: the alert list holds exactly one LONG_TERM_STOP alert, of severity *)
(* HIGH, for each flagged vehicle whose stop duration is strictly greater *)
(* than 2 x stop_threshold_hours, and none for any other flagged vehicle.  *)
C9_LongTermStopAlerts ==
    \A c \in Calls :
        Alerted(frame[c]) =>
            LET sv == frame[c].stopped_vehicles
                lts == AlertsOfType(frame[c].alerts, "LONG_TERM_STOP")
            IN  /\ \A k \in 1..Len(sv) :
                       Cardinality({a \in 1..Len(lts) : lts[a].vehicle_id = sv[k].vehicle_id})
                           = IF sv[k].stop_duration_hours > 2 * detector.stop_threshold_hours
                             THEN 1 ELSE 0
                /\ \A a \in 1..Len(lts) :
                       /\ lts[a].severity = "HIGH"
                       /\ \E k \in 1..Len(sv) :
                              /\ lts[a].vehicle_id = sv[k].vehicle_id
                              /\ lts[a].duration_hours = sv[k].stop_duration_hours

(* C9 witness: a finished run that flagged a vehicle stopped for more     *)
(* than twice the threshold and raised its alert.                          *)
C9_Witness ==
    /\ frame[1].pc = "done"
    /\ \E k \in 1..Len(frame[1].stopped_vehicles) :
           frame[1].stopped_vehicles[k].stop_duration_hours
               > 2 * detector.stop_threshold_hours
    /\ AlertsOfType(frame[1].alerts, "LONG_TERM_STOP") # <<>>

(* C10: the STOP_CLUSTER alerts, all of severity HIGH, are one per HIGH   *)
(* cluster in the clusters' order, and none for a MEDIUM or LOW cluster.   *)
C10_StopClusterAlerts ==
    \A c \in Calls :
        Alerted(frame[c]) =>
            LET high == SelectSeq(frame[c].stopped_clusters,
                                  LAMBDA cl : cl.risk_level = "HIGH")
                sc == AlertsOfType(frame[c].alerts, "STOP_CLUSTER")
            IN  /\ Len(sc) = Len(high)
                /\ \A a \in 1..Len(sc) :
                       /\ sc[a].severity = "HIGH"
                       /\ a <= Len(high)
                       /\ sc[a].location = high[a].center
                       /\ sc[a].vehicle_count = high[a].vehicle_count

(* C10 witness: a run with a HIGH cluster and its STOP_CLUSTER alert. *)
C10_Witness ==
    /\ frame[1].pc = "return"
    /\ \E k \in 1..Len(frame[1].stopped_clusters) :
           frame[1].stopped_clusters[k].risk_level = "HIGH"
    /\ AlertsOfType(frame[1].alerts, "STOP_CLUSTER") # <<>>

(* the report of call c, once it has returned *)
Returned(c) == frame[c].pc = "done" /\ frame[c].result # None
Report(c) == Val(frame[c].result)

(* the area risk score the report's own lists call for *)
AreaRiskScore(report) ==
    10 * Len(report.stopped_vehicles)
    + 20 * Cardinality({k \in 1..Len(report.stopped_vehicles) :
                           RGt(report.stopped_vehicles[k].confidence, Frac(8, 10))})
    + 30 * Cardinality({k \in 1..Len(report.clusters) :
                           report.clusters[k].risk_level = "HIGH"})

(* C11: in every report the area risk score is 10 x the number of flagged  *)
(* vehicles + 20 x the number of flagged vehicles with confidence > 0.8    *)
(* + 30 x the number of HIGH clusters, and the level is HIGH from 100,     *)
(* MEDIUM from 50 and LOW below.                                           *)
C11_AreaRiskScore ==
    \A c \in Calls :
        Returned(c) =>
            LET ra == Report(c).risk_assessment
            IN  /\ ra.score = AreaRiskScore(Report(c))
                /\ ra.level = IF ra.score >= 100 THEN "HIGH"
                              ELSE IF ra.score >= 50 THEN "MEDIUM" ELSE "LOW"

(* C11 witness: a report with a HIGH cluster whose score reaches 100. *)
C11_Witness ==
    /\ Returned(1)
    /\ Report(1).risk_assessment.level = "HIGH"
    /\ Report(1).risk_assessment.score >= 100
    /\ \E k \in 1..Len(Report(1).clusters) : Report(1).clusters[k].risk_level = "HIGH"

(* the call has left the loop of lines 65-86 *)
Analysed(f) ==
    \/ f.pc \in {"cluster", "alerts", "return"}
    \/ f.pc = "done" /\ Len(f.recent_vehicles) >= 2

(* Scenario A: three cars at one spot at hours 0, 10 and 30, in that      *)
(* order, default thresholds, all inside the analysis window.              *)
ScenarioA(f) ==
    /\ detector = DefaultDetector
    /\ Len(f.vehicles) = 3
    /\ \A k \in 1..3 : f.vehicles[k].latitude = f.vehicles[1].latitude
    /\ f.vehicles[1].timestamp = 0
    /\ f.vehicles[2].timestamp = 10
    /\ f.vehicles[3].timestamp = 30
    /\ Len(f.recent_vehicles) = 3

(* C12: Scenario A yields a single track whose pattern has one committed  *)
(* stop interval of 30 h, so that total_stop_time is 30 h, at least the    *)
(* 24 h threshold, and the track is classified long-term-stopped.          *)
C12_ScenarioA ==
    \A c \in Calls :
        (ScenarioA(frame[c]) /\ Analysed(frame[c])) =>
            /\ Len(frame[c].vehicle_groups) = 1
            /\ Len(frame[c].movement_patterns) = 1
            /\ Len(frame[c].movement_patterns[1].stop_periods) = 1
            /\ frame[c].movement_patterns[1].stop_periods[1].duration_hours = 30
            /\ frame[c].movement_patterns[1].total_stop_time_hours
                   >= detector.stop_threshold_hours
            /\ Len(frame[c].stopped_vehicles) = 1

(* the call has been made and has taken its first step *)
Started(f) == f.pc \notin {"idle", "call"}

(* C13: Scenario C.  A call on an empty detection list returns at once,   *)
(* with a report of zero detections analysed, zero flagged vehicles, zero  *)
(* clusters, an empty alert list and area risk level LOW.                  *)
C13_ScenarioC ==
    \A c \in Calls :
        (frame[c].vehicles = <<>> /\ Started(frame[c])) =>
            /\ Returned(c)
            /\ Report(c).total_vehicles_analyzed = 0
            /\ Report(c).stopped_vehicles_found = 0
            /\ Report(c).stopped_vehicles = <<>>
            /\ Report(c).stop_clusters = 0
            /\ Report(c).clusters = <<>>
            /\ Report(c).alerts = <<>>
            /\ Report(c).risk_assessment.level = "LOW"

(* C13 witness: a call on the empty list has returned. *)
C13_Witness == frame[1].vehicles = <<>> /\ Returned(1)

(* Scenario D: five flagged vehicles, each within 80 m of every other,    *)
(* whose confidences average 0.85; default thresholds.                     *)
ScenarioD(f) ==
    /\ detector = DefaultDetector
    /\ Len(f.stopped_vehicles) = 5
    /\ Mean(Confidences(f.stopped_vehicles)) = Frac(85, 100)
    /\ \A i, j \in 1..5 :
           WithinMetres(f.stopped_vehicles[i].location, f.stopped_vehicles[j].location, 80)

(* C14: Scenario D yields exactly one cluster, of five vehicles and of     *)
(* risk level HIGH, and exactly one STOP_CLUSTER alert.                    *)
C14_ScenarioD ==
    \A c \in Calls :
        (Alerted(frame[c]) /\ ScenarioD(frame[c])) =>
            /\ Len(frame[c].stopped_clusters) = 1
            /\ frame[c].stopped_clusters[1].vehicle_count = 5
            /\ frame[c].stopped_clusters[1].risk_level = "HIGH"
            /\ Len(AlertsOfType(frame[c].alerts, "STOP_CLUSTER")) = 1

(* Scenario B: two detections of one class, 200 m apart, at hours 0 and 1. *)
ScenarioB(f) ==
    /\ Len(f.vehicles) = 2
    /\ f.vehicles[1].vehicle_type = f.vehicles[2].vehicle_type
    /\ _calculate_distance(f.vehicles[1], f.vehicles[2]) = 200
    /\ {f.vehicles[1].timestamp, f.vehicles[2].timestamp} = {0, 1}

InRange(vehicle) ==
    /\ vehicle.latitude >= -NorthPole
    /\ vehicle.latitude <= NorthPole

(* C16: a call whose input holds a detection with an out-of-range field    *)
(* never produces a report.                                                *)
C16_InvalidInputRejected ==
    \A c \in Calls :
        (\E k \in 1..Len(frame[c].vehicles) : ~InRange(frame[c].vehicles[k]))
            => frame[c].result = None

PositiveThresholds(self) ==
    /\ self.stop_threshold_hours > 0
    /\ self.movement_threshold_meters > 0
    /\ self.cluster_radius_meters > 0
    /\ self.min_stop_duration_hours > 0

(* C17: under a configuration with positive thresholds every call, on     *)
(* whatever list of detections, eventually returns a report: it neither   *)
(* raises nor runs for ever.                                               *)
C17_AlwaysReturns == PositiveThresholds(detector) => <>Returned(1)

(* C17 witness: a call has returned after analysing a track whose          *)
(* detections all carry the same timestamp.                                *)
C17_Witness ==
    /\ PositiveThresholds(detector)
    /\ Returned(1)
    /\ \E p \in Patterns(1) : p.total_detections >= 2 /\ p.total_time_hours = 0

(* C18: no step of a call changes the caller's detection list (its        *)
(* elements, their order, their fields) or the detector's four             *)
(* thresholds, so that both have their pre-call values when it returns.    *)
C18_InputsUnchanged ==
    [][/\ detector' = detector
       /\ \A c \in Calls : frame[c].vehicles' = frame[c].vehicles]_vars

(* C18 witness: a call has returned after line 70 reordered a track whose  *)
(* detections were not given in timestamp order.                           *)
C18_Witness ==
    /\ Returned(1)
    /\ \E g \in 1..Len(frame[1].vehicle_groups) :
           \E k \in 1..(Len(frame[1].vehicle_groups[g]) - 1) :
               frame[1].vehicle_groups[g][k] > frame[1].vehicle_groups[g][k + 1]

(* Lines 65-86 run from track g on with no other call about: the flagged  *)
(* vehicles, in the tracks' order.                                         *)
RECURSIVE FlaggedAlone(_, _, _, _, _)
FlaggedAlone(self, recent_vehicles, vehicle_groups, g, now) ==
    IF g > Len(vehicle_groups) THEN <<>>
    ELSE LET sorted == SortByTimestamp(recent_vehicles, vehicle_groups[g])
             pattern == _analyze_movement_pattern(
                            self, [k \in 1..Len(sorted) |-> recent_vehicles[sorted[k]]])
             f == [IdleFrame EXCEPT !.recent_vehicles = recent_vehicles,
                                    !.vehicle_groups = <<sorted>>,
                                    !.group_index = 1, !.pattern = pattern]
         IN  (IF Len(vehicle_groups[g]) >= 2 /\ _is_long_term_stopped(self, pattern, now)
              THEN <<[StoppedVehicle(f) EXCEPT !.vehicle_id = g - 1]>> ELSE <<>>)
             \o FlaggedAlone(self, recent_vehicles, vehicle_groups, g + 1, now)

(* The report of detect_long_term_stopped_vehicles run on its own, with    *)
(* every reading of the clock giving `now'.                                *)
RunAlone(self, vehicles, analysis_start, now) ==
    LET start == IF analysis_start = None THEN now - SevenDays ELSE Val(analysis_start)
        recent_vehicles == SelectSeq(vehicles, LAMBDA v : v.timestamp >= start)
        stopped_vehicles ==
            FlaggedAlone(self, recent_vehicles,
                         _group_vehicles_by_location(self, recent_vehicles), 1, now)
        stopped_clusters == _cluster_stopped_vehicles(self, stopped_vehicles)
    IN  IF vehicles = <<>> \/ Len(recent_vehicles) < 2 THEN _empty_result
        ELSE [total_vehicles_analyzed |-> Len(recent_vehicles),
              stopped_vehicles_found |-> Len(stopped_vehicles),
              stop_clusters |-> Len(stopped_clusters),
              stopped_vehicles |-> stopped_vehicles,
              clusters |-> stopped_clusters,
              alerts |-> _generate_stop_alerts(self, stopped_vehicles, stopped_clusters, now),
              analysis_period_hours |-> now - start,
              risk_assessment |-> _assess_risk_level(stopped_vehicles, stopped_clusters)]

(* C19: of two calls on the shared detector, on different detections and   *)
(* with their steps interleaved in any way, each returns the report it     *)
(* returns when run alone with the same reference now.                     *)
C19_ConcurrentCallsIndependent ==
    \A c \in Calls :
        Returned(c) =>
            Report(c) = RunAlone(detector, frame[c].vehicles, None, clock)

(* C19 witness: both calls have returned, one with a flagged vehicle and   *)
(* one without.                                                            *)
C19_Witness ==
    /\ Returned(1)
    /\ Returned(2)
    /\ frame[1].vehicles # frame[2].vehicles
    /\ Report(1).stopped_vehicles_found = 1
    /\ Report(2).total_vehicles_analyzed = 2
    /\ Report(2).stopped_vehicles_found = 0

(* The detections of a call's input that fall inside its analysis window.  *)
InWindow(f) ==
    IF f.analysis_start = None THEN <<>>
    ELSE SelectSeq(f.vehicles, LAMBDA v : v.timestamp >= Val(f.analysis_start))

(* C20: the report's total_vehicles_analyzed equals the number of input    *)
(* detections inside the analysis window, a window holding exactly one     *)
(* detection included.                                                     *)
C20_TotalAnalysed ==
    \A c \in Calls :
        Returned(c) /\ (frame[c].vehicles = <<>> \/ frame[c].analysis_start # None) =>
            Report(c).total_vehicles_analyzed = Len(InWindow(frame[c]))

(* C21: the risk assessment of every report carries the four fields level, *)
(* score, description and recommendations, whether the input was empty,    *)
(* had no flagged vehicle or had flagged vehicles; for an input of zero    *)
(* detections the recommendations are there and empty.                     *)
C21_RiskAssessmentFields ==
    \A c \in Calls :
        Returned(c) =>
            LET ra == Report(c).risk_assessment
            IN  /\ DOMAIN ra = {"level", "score", "description", "recommendations"}
                /\ frame[c].vehicles = <<>> => ra.recommendations = <<>>

(* the position at which vehicle_groups is the grouper's output, untouched *)
JustGrouped(f) == f.pc = "loop" /\ f.group_index = 1

(* the input positions held by the tracks before track g *)
AssignedBefore(groups, g) ==
    UNION {SeqToSet(groups[h]) : h \in 1..(g - 1)}

(* candidate within the three limits of the seed: strictly nearer than the *)
(* movement threshold, strictly less than 24 h apart, of the same class    *)
NearSeed(self, seed, candidate) ==
    /\ Abs(candidate.latitude - seed.latitude) < self.movement_threshold_meters
    /\ Abs(candidate.timestamp - seed.timestamp) < 24
    /\ candidate.vehicle_type = seed.vehicle_type

(* C22: a detection not yet assigned when a track is built joins that      *)
(* track if and only if it is strictly nearer than movement_threshold      *)
(* metres to the track's seed, strictly less than 24 h from it and of its  *)
(* class; it is measured against the seed, never against other members.    *)
C22_JoinsIffNearSeed ==
    \A c \in Calls :
        JustGrouped(frame[c]) =>
            LET groups == frame[c].vehicle_groups
                vehicles == frame[c].recent_vehicles
            IN  \A g \in 1..Len(groups) :
                    \A j \in (1..Len(vehicles)) \ (AssignedBefore(groups, g) \cup {groups[g][1]}) :
                        j \in SeqToSet(groups[g])
                            <=> NearSeed(detector, vehicles[groups[g][1]], vehicles[j])

(* C22 witness: a detection 40 m from a member of the first track, but     *)
(* 80 m from its seed, is left out of that track.                          *)
C22_Witness ==
    /\ frame[1].pc = "loop"
    /\ Len(frame[1].recent_vehicles) = 3
    /\ frame[1].vehicle_groups = <<(<<1, 2>>), (<<3>>)>>
    /\ NearSeed(detector, frame[1].recent_vehicles[2], frame[1].recent_vehicles[3])
    /\ ~NearSeed(detector, frame[1].recent_vehicles[1], frame[1].recent_vehicles[3])

(* the pair of detections k, k+1 of a track did not move *)
StoodStill(self, vehicles, k) ==
    Abs(vehicles[k + 1].latitude - vehicles[k].latitude) < self.movement_threshold_meters

(* where the run of still pairs that reaches the end of the track begins *)
DanglingFrom(self, vehicles) ==
    CHOOSE m \in 1..(Len(vehicles) - 1) :
        /\ \A k \in m..(Len(vehicles) - 1) : StoodStill(self, vehicles, k)
        /\ m = 1 \/ ~StoodStill(self, vehicles, m - 1)

(* the last committed interval of the pattern runs from detection m to the *)
(* last detection of the track                                             *)
DanglingCommitted(pattern, vehicles, m) ==
    /\ pattern.stop_periods # <<>>
    /\ LET last == pattern.stop_periods[Len(pattern.stop_periods)]
       IN  /\ last.start_time = vehicles[m].timestamp
           /\ last.end_time = vehicles[Len(vehicles)].timestamp
           /\ last.location = vehicles[m]

(* C23: when a track ends while a stop window is open, the window is       *)
(* closed at the last detection's timestamp and committed if and only if   *)
(* it lasted min_stop_duration_hours or more; it is never silently lost.   *)
C23_DanglingWindowCommitted ==
    \A c \in Calls :
        LET f == frame[c]
            vehicles == GroupVehicles(f, f.group_index)
            n == Len(vehicles)
        IN  f.pc = "classify" /\ n >= 2 /\ StoodStill(detector, vehicles, n - 1) =>
                LET m == DanglingFrom(detector, vehicles)
                IN  DanglingCommitted(f.pattern, vehicles, m)
                        <=> vehicles[n].timestamp - vehicles[m].timestamp
                                >= detector.min_stop_duration_hours

(* C23 witness: a track that moved, then stood still to its end for        *)
(* min_stop_duration_hours or more, whose dangling window was committed.   *)
C23_Witness ==
    LET f == frame[1]
        vehicles == GroupVehicles(f, f.group_index)
        n == Len(vehicles)
    IN  /\ f.pc = "classify"
        /\ n >= 3
        /\ StoodStill(detector, vehicles, n - 1)
        /\ DanglingFrom(detector, vehicles) > 1
        /\ DanglingCommitted(f.pattern, vehicles, DanglingFrom(detector, vehicles))

(* the places at which the flagged vehicle with the given key is listed in *)
(* the cluster                                                             *)
MemberAt(cluster, vehicle_id) ==
    {k \in 1..Len(cluster.vehicles) : cluster.vehicles[k].vehicle_id = vehicle_id}

(* no other flagged vehicle lies within cluster_radius_meters / 111000     *)
(* degrees of flagged vehicle i                                            *)
Noise(self, stopped_vehicles, i) ==
    \A j \in (1..Len(stopped_vehicles)) \ {i} :
        ~WithinEps(self, stopped_vehicles[i].location, stopped_vehicles[j].location)

(* C24: the clusters returned by _cluster_stopped_vehicles have at least   *)
(* two members each, no flagged vehicle is in more than one of them, a     *)
(* flagged vehicle with no other flagged vehicle within                    *)
(* cluster_radius_meters / 111000 degrees is in none, and the centre of a  *)
(* cluster is the arithmetic mean of its members' coordinates.             *)
C24_ClustersWellFormed ==
    \A c \in Calls :
        Clustered(frame[c]) =>
            LET clusters == frame[c].stopped_clusters
                stopped_vehicles == frame[c].stopped_vehicles
            IN  /\ \A k \in 1..Len(clusters) :
                       /\ Len(clusters[k].vehicles) >= 2
                       /\ clusters[k].center.latitude =
                              Mean([m \in 1..Len(clusters[k].vehicles) |->
                                       clusters[k].vehicles[m].location.latitude])
                       /\ clusters[k].center.longitude =
                              Mean([m \in 1..Len(clusters[k].vehicles) |->
                                       clusters[k].vehicles[m].location.longitude])
                /\ \A i \in 1..Len(stopped_vehicles) :
                       LET id == stopped_vehicles[i].vehicle_id
                           holding == {k \in 1..Len(clusters) : MemberAt(clusters[k], id) # {}}
                       IN  /\ Cardinality(holding) <= 1
                           /\ \A k \in holding : Cardinality(MemberAt(clusters[k], id)) = 1
                           /\ Noise(detector, stopped_vehicles, i) => holding = {}

(* C24 witness: three flagged vehicles, two of them in one cluster centred *)
(* on the spot they share, the third, 200 m away, noise.                   *)
C24_Witness ==
    /\ Clustered(frame[1])
    /\ Len(frame[1].stopped_vehicles) = 3
    /\ Len(frame[1].stopped_clusters) = 1
    /\ Len(frame[1].stopped_clusters[1].vehicles) = 2
    /\ frame[1].stopped_clusters[1].center = frame[1].stopped_clusters[1].vehicles[1].location
    /\ \E i \in 1..3 : Noise(detector, frame[1].stopped_vehicles, i)

(* earliest and latest timestamp among the members of a track *)
Earliest(vehicles, group) ==
    CHOOSE t \in {vehicles[i].timestamp : i \in SeqToSet(group)} :
        \A i \in SeqToSet(group) : t <= vehicles[i].timestamp
Latest(vehicles, group) ==
    CHOOSE t \in {vehicles[i].timestamp : i \in SeqToSet(group)} :
        \A i \in SeqToSet(group) : t >= vehicles[i].timestamp

(* C25: every member of a track returned by _group_vehicles_by_location    *)
(* has the seed's class and lies less than movement_threshold_meters and   *)
(* less than 24 h from the seed; so the earliest and the latest detection  *)
(* of a track are less than 48 h apart, and so are total_time and          *)
(* total_stop_time of every pattern.                                       *)
C25_TrackWithinTwoDays ==
    \A c \in Calls :
        LET f == frame[c]
            vehicles == f.recent_vehicles
        IN  /\ JustGrouped(f) =>
                   \A g \in 1..Len(f.vehicle_groups) :
                       LET seed == vehicles[f.vehicle_groups[g][1]]
                       IN  \A i \in SeqToSet(f.vehicle_groups[g]) :
                               /\ vehicles[i].vehicle_type = seed.vehicle_type
                               /\ Abs(vehicles[i].latitude - seed.latitude)
                                      < detector.movement_threshold_meters
                               /\ Abs(vehicles[i].timestamp - seed.timestamp) < 24
            /\ Grouped(f) =>
                   \A g \in 1..Len(f.vehicle_groups) :
                       Latest(vehicles, f.vehicle_groups[g])
                           - Earliest(vehicles, f.vehicle_groups[g]) < 48
            /\ \A p \in Patterns(c) :
                   /\ p.total_time_hours < 48
                   /\ p.total_stop_time_hours < 48

(* C25 witness: a track whose members lie 23 h before and 23 h after the   *)
(* seed, analysed into a pattern covering 46 h.                            *)
C25_Witness ==
    /\ frame[1].pc = "classify"
    /\ frame[1].pattern.total_time_hours = 46
    /\ frame[1].pattern.total_stop_time_hours = 46
    /\ frame[1].recent_vehicles[1].timestamp = 24

(* C26: with the default stop_threshold_hours of 24, every vehicle flagged  *)
(* by detect_long_term_stopped_vehicles has stop_duration_hours < 48, and  *)
(* no report of the pipeline holds a LONG_TERM_STOP alert.                 *)
C26_NoLongTermStopAlert ==
    \A c \in Calls :
        detector.stop_threshold_hours = 24 =>
            /\ \A k \in 1..Len(frame[c].stopped_vehicles) :
                   frame[c].stopped_vehicles[k].stop_duration_hours < 48
            /\ Returned(c) => AlertsOfType(Report(c).alerts, "LONG_TERM_STOP") = <<>>

(* C26 witness: a report under the default thresholds with a vehicle       *)
(* flagged for a stop of 46 h, and no LONG_TERM_STOP alert.                *)
C26_Witness ==
    /\ detector.stop_threshold_hours = 24
    /\ Returned(1)
    /\ \E k \in 1..Len(Report(1).stopped_vehicles) :
           Report(1).stopped_vehicles[k].stop_duration_hours = 46
    /\ AlertsOfType(Report(1).alerts, "LONG_TERM_STOP") = <<>>

(* the decision rule without the early return of line 213 *)
ThreeConditionRule(self, pattern, now) ==
    \/ LongTotalStop(self, pattern)
    \/ HighConfidence(pattern)
    \/ RecentLongStop(pattern, now)

(* C27: for every pattern _analyze_movement_pattern produces under a       *)
(* positive stop_threshold_hours, the classifier with its early return     *)
(* for total_stop_time < min_stop_duration_hours decides as the three      *)
(* conditions alone do: a pattern the early return catches has no          *)
(* committed interval, a stop_confidence of at most 0.5, and meets none of *)
(* the three conditions.                                                   *)
C27_EarlyReturnRedundant ==
    \A c \in Calls :
        LET f == frame[c]
        IN  f.pc = "classify" /\ detector.stop_threshold_hours > 0 =>
                /\ _is_long_term_stopped(detector, f.pattern, clock)
                       <=> ThreeConditionRule(detector, f.pattern, clock)
                /\ f.pattern.total_stop_time_hours < detector.min_stop_duration_hours =>
                       /\ f.pattern.stop_periods = <<>>
                       /\ RLe(f.pattern.stop_confidence, Frac(5, 10))
                       /\ ~ThreeConditionRule(detector, f.pattern, clock)

(* C27 witness: a track that stood still for less than                     *)
(* min_stop_duration_hours and moved slowly: the early return is taken     *)
(* with a stop_confidence of exactly 0.5.                                  *)
C27_Witness ==
    /\ frame[1].pc = "classify"
    /\ frame[1].pattern.total_detections >= 2
    /\ frame[1].pattern.total_time_hours > 0
    /\ frame[1].pattern.total_stop_time_hours < detector.min_stop_duration_hours
    /\ frame[1].pattern.stop_confidence = Frac(5, 10)

(* C28: a report that holds a STOP_CLUSTER alert has an area risk score of *)
(* at least 80 and an area risk level of MEDIUM or HIGH, never LOW: the    *)
(* HIGH cluster behind the alert has at least three flagged members, one   *)
(* of them at least with confidence > 0.8.                                 *)
C28_ClusterAlertMeansRisk ==
    \A c \in Calls :
        Returned(c) /\ AlertsOfType(Report(c).alerts, "STOP_CLUSTER") # <<>> =>
            /\ Report(c).risk_assessment.score >= 80
            /\ Report(c).risk_assessment.level \in {"MEDIUM", "HIGH"}
            /\ \E k \in 1..Len(Report(c).clusters) :
                   LET cl == Report(c).clusters[k]
                   IN  /\ cl.risk_level = "HIGH"
                       /\ Len(cl.vehicles) >= 3
                       /\ \E m \in 1..Len(cl.vehicles) :
                              RGt(cl.vehicles[m].confidence, Frac(8, 10))

(* C28 witness: a report with a STOP_CLUSTER alert whose score is exactly  *)
(* 80 and whose level is MEDIUM.                                           *)
C28_Witness ==
    /\ Returned(1)
    /\ AlertsOfType(Report(1).alerts, "STOP_CLUSTER") # <<>>
    /\ Report(1).risk_assessment.score = 80
    /\ Report(1).risk_assessment.level = "MEDIUM"

(* C29: the area risk level of a report is HIGH only if at least three     *)
(* vehicles were flagged; with exactly one flagged vehicle the level is    *)
(* LOW and the score at most 30, with exactly two the level is at most     *)
(* MEDIUM and the score at most 60.                                        *)
C29_RiskNeedsThreeVehicles ==
    \A c \in Calls :
        Returned(c) =>
            LET ra == Report(c).risk_assessment
                found == Len(Report(c).stopped_vehicles)
            IN  /\ ra.level = "HIGH" => found >= 3
                /\ found = 1 => ra.level = "LOW" /\ ra.score <= 30
                /\ found = 2 => ra.level \in {"LOW", "MEDIUM"} /\ ra.score <= 60

(* C29 witness: two flagged vehicles, both of confidence above 0.8 and in  *)
(* one cluster, give a score of exactly 60 and the level MEDIUM.           *)
C29_Witness ==
    /\ Returned(1)
    /\ Len(Report(1).stopped_vehicles) = 2
    /\ Len(Report(1).clusters) = 1
    /\ Report(1).risk_assessment.score = 60
    /\ Report(1).risk_assessment.level = "MEDIUM"

(* the tracks whose seed satisfies the grouping rule with detection j *)
SeedsNear(self, vehicles, groups, j) ==
    {g \in 1..Len(groups) : NearSeed(self, vehicles[groups[g][1]], vehicles[j])}

(* C30: in the output of _group_vehicles_by_location the seeds of two      *)
(* distinct tracks never satisfy the grouping rule with each other, and a  *)
(* detection that satisfies it with several seeds is a member of the       *)
(* track whose seed comes first in the input.                              *)
C30_SeedsApartFirstSeedWins ==
    \A c \in Calls :
        JustGrouped(frame[c]) =>
            LET groups == frame[c].vehicle_groups
                vehicles == frame[c].recent_vehicles
            IN  /\ \A g, h \in 1..Len(groups) :
                       g # h => ~NearSeed(detector, vehicles[groups[g][1]],
                                          vehicles[groups[h][1]])
                /\ \A j \in 1..Len(vehicles) :
                       LET near == SeedsNear(detector, vehicles, groups, j)
                       IN  near # {} =>
                               \E g \in near :
                                   /\ \A h \in near : groups[g][1] <= groups[h][1]
                                   /\ j \in SeqToSet(groups[g])

(* C30 witness: a detection within the rule of the seeds of two tracks is  *)
(* a member of the first.                                                  *)
C30_Witness ==
    /\ JustGrouped(frame[1])
    /\ Len(frame[1].vehicle_groups) = 2
    /\ \E j \in 1..Len(frame[1].recent_vehicles) :
           /\ SeedsNear(detector, frame[1].recent_vehicles, frame[1].vehicle_groups, j) = {1, 2}
           /\ j \in SeqToSet(frame[1].vehicle_groups[1])

====
